---- MODULE Spec2Model ----
(***************************************************************************)
(* Model of src/main.py: the Streamlit certificate generator.              *)
(*                                                                         *)
(* Texts are sequences of one-character strings.  The only longer token is *)
(* the output of strftime("%Y-%m-%d %H:%M:%S"), kept as one token: it      *)
(* holds no comma and no line break and neither starts nor ends with white *)
(* space.                                                                  *)
(*                                                                         *)
(* Every script run of the "Generate Certificate" page is one request of a *)
(* session: load_codes (line 44), then the button handler (lines 51-290),  *)
(* cut at each access to a shared file.  The "View Logs" page (lines       *)
(* 292-315) and draw_inline_text (lines 101-114) have their own            *)
(* specifications.                                                         *)
(***************************************************************************)
EXTENDS Integers, Sequences, FiniteSets, TLC

VARIABLES
    codesExists,  \* os.path.exists("codes.txt")
    codesFile,    \* codes.txt: the sequence of its lines, without the line breaks
    logExists,    \* os.path.exists("certificate_log.txt")
    logFile,      \* certificate_log.txt: the sequence of its characters
    sess,         \* per session: the position and the locals of its script run
    runs,         \* number of script runs started so far
    issued,       \* the documents handed to st.download_button, in order
    provisioned,  \* the code values of codes.txt before the first run
    view,         \* the script run of the "View Logs" page
    inl           \* one call of draw_inline_text

vars == <<codesExists, codesFile, logExists, logFile, sess, runs, issued,
          provisioned, view, inl>>

redeemVars == <<codesExists, codesFile, logExists, logFile, sess, runs, issued,
                provisioned>>

-----------------------------------------------------------------------------
(* Bounds of the model *)

MaxRuns == 2        \* script runs of the generate page in one behaviour
MaxCodes == 2       \* lines of the provisioned codes.txt
MaxLogChars == 7    \* characters of an arbitrary certificate_log.txt
MaxSegments == 3    \* runs handed to draw_inline_text

-----------------------------------------------------------------------------
(* Text helpers: str.isdigit, int(), f"{code}", str.strip, str.split,      *)
(* file.readlines                                                          *)

DecimalChars == {"0", "1", "2", "3", "4", "5", "6", "7", "8", "9"}

\* "^2" stands for SUPERSCRIPT TWO: str.isdigit() accepts it, int() does not.
SuperscriptChars == {"^2"}

Whitespace == {" ", "\n"}

DigitVal ==
    ("0" :> 0) @@ ("1" :> 1) @@ ("2" :> 2) @@ ("3" :> 3) @@ ("4" :> 4) @@
    ("5" :> 5) @@ ("6" :> 6) @@ ("7" :> 7) @@ ("8" :> 8) @@ ("9" :> 9)

DigitChar ==
    (0 :> "0") @@ (1 :> "1") @@ (2 :> "2") @@ (3 :> "3") @@ (4 :> "4") @@
    (5 :> "5") @@ (6 :> "6") @@ (7 :> "7") @@ (8 :> "8") @@ (9 :> "9")

\* str.isdigit(): false for the empty string, true when every character is a digit
isdigit(s) ==
    /\ Len(s) > 0
    /\ \A i \in 1..Len(s) : s[i] \in DecimalChars \cup SuperscriptChars

\* int(s) raises ValueError unless s is a non-empty decimal string
IntRaises(s) == Len(s) = 0 \/ \E i \in 1..Len(s) : s[i] \notin DecimalChars

RECURSIVE IntOf(_)
IntOf(s) ==
    IF s = <<>> THEN 0
    ELSE 10 * IntOf(SubSeq(s, 1, Len(s) - 1)) + DigitVal[s[Len(s)]]

\* f"{code}" of a non-negative int
RECURSIVE StrOf(_)
StrOf(n) ==
    IF n < 10 THEN <<DigitChar[n]>>
    ELSE StrOf(n \div 10) \o <<DigitChar[n % 10]>>

RECURSIVE LStrip(_)
LStrip(s) ==
    IF s # <<>> /\ s[1] \in Whitespace THEN LStrip(Tail(s)) ELSE s

RECURSIVE RStrip(_)
RStrip(s) ==
    IF s # <<>> /\ s[Len(s)] \in Whitespace
    THEN RStrip(SubSeq(s, 1, Len(s) - 1)) ELSE s

Strip(s) == RStrip(LStrip(s))

\* index of the first occurrence of ch in s, 0 when there is none
FirstIndex(s, ch) ==
    IF \E i \in 1..Len(s) : s[i] = ch
    THEN CHOOSE i \in 1..Len(s) : s[i] = ch /\ \A j \in 1..(i - 1) : s[j] # ch
    ELSE 0

\* s.split(","): the fields between the commas, empty fields kept
RECURSIVE Split(_)
Split(s) ==
    LET i == FirstIndex(s, ",") IN
    IF i = 0 THEN <<s>>
    ELSE <<SubSeq(s, 1, i - 1)>> \o Split(SubSeq(s, i + 1, Len(s)))

\* file.readlines(): each line with its line break, the last one maybe without
RECURSIVE Readlines(_)
Readlines(text) ==
    LET i == FirstIndex(text, "\n") IN
    IF text = <<>> THEN <<>>
    ELSE IF i = 0 THEN <<text>>
    ELSE <<SubSeq(text, 1, i)>> \o Readlines(SubSeq(text, i + 1, Len(text)))

Range(s) == {s[i] : i \in 1..Len(s)}

-----------------------------------------------------------------------------
(* Helper functions of main.py, lines 14-34 *)

\* load_codes: [int(line.strip()) for line in f if line.strip()]
load_codes(lines) ==
    LET kept == SelectSeq(lines, LAMBDA line : Strip(line) # <<>>) IN
    [i \in 1..Len(kept) |-> IntOf(Strip(kept[i]))]

\* update_codes: one f"{code}\n" per code
update_codes(codes) == [i \in 1..Len(codes) |-> StrOf(codes[i])]

\* the text log_certificate_generation appends
log_line(timestamp, code, name, roll_number) ==
    <<timestamp>> \o <<",">> \o StrOf(code) \o <<",">> \o name \o <<",">>
        \o roll_number \o <<"\n">>

\* a removal that removes nothing
ListRemoveNothing(list, x) == list

\* list.remove(x): drops the first occurrence of x
ListRemove(list, x) ==
    LET i == FirstIndex(list, x) IN
    SubSeq(list, 1, i - 1) \o SubSeq(list, i + 1, Len(list))

-----------------------------------------------------------------------------
(* The "Generate Certificate" page, lines 39-290 *)

Sessions == {"s1", "s2"}

\* inputs of the form: st.text_input(..., max_chars=4) holds at most 4 characters
CodeInputs ==
    { <<>>,
      <<"1", "2">>,
      <<"1", "2", "a", "4">>,
      <<"^2", "^2", "^2", "^2">>,
      <<"1", "2", "3", "4">>,
      <<"0", "0", "1", "2">> }

Names == { <<>>, <<"A">>, <<"A", ",", "B">> }

RollNumbers == { <<>>, <<"7">> }

\* datetime.now().strftime("%Y-%m-%d %H:%M:%S")
Timestamps == {"2025-01-01 10:00:00"}

\* lines a provisioned codes.txt is made of: one integer per line, or blank
CodeLines ==
    { <<"1", "2", "3", "4">>, <<"0", "0", "1", "2">>, <<"1", "2">>, <<>> }

\* codes.txt as provisioned; its codes are distinct (load_codes does not check
\* it, and update_codes, writing a sublist, keeps it)
ProvisionedFiles ==
    { f \in UNION {[1..n -> CodeLines] : n \in 0..MaxCodes} :
        \A i, j \in 1..Len(f) :
            (i # j /\ f[i] # <<>> /\ f[j] # <<>>) => IntOf(f[i]) # IntOf(f[j]) }

header_img_path == "header.png"
signature1_path == "divyansh_sign.jpg"
signature2_path == "chaitanya_sign.png"
signature3_path == "Sushant_Sign.png"

AssetFiles ==
    {header_img_path, signature1_path, signature2_path, signature3_path}

IdleSession ==
    [ pc |-> "idle",
      valid_codes |-> <<>>,      \* the list load_codes returned, as mutated
      code_input |-> <<>>,
      name |-> <<>>,
      roll_number |-> <<>>,
      code_val |-> 0,
      present |-> {},            \* image files found on disk while rendering
      loaded |-> <<>>,           \* history: the list load_codes returned
      codes_before |-> <<>>,     \* history: codes.txt when the run began
      log_before |-> <<>>,       \* history: the log when the run began
      log_existed |-> FALSE,     \* history: whether the log existed then
      issued_before |-> 0,       \* history: Len(issued) when the run began
      stopped_at |-> "" ]        \* history: where the run was when it stopped

Terminal ==
    {"idle", "no_click", "err_config", "err_format", "err_value", "err_code",
     "err_fields", "err_render", "done", "stopped"}

InFlight == {"update_open", "update_write", "log", "render"}

\* the checks without the one on the length of the input
ValidateNoLength(code_input, name, roll_number, valid_codes) ==
    IF code_input = <<>> \/ ~isdigit(code_input) THEN "err_format"
    ELSE IF IntRaises(code_input) THEN "err_value"
    ELSE IF IntOf(code_input) \notin Range(valid_codes) THEN "err_code"
    ELSE IF name = <<>> \/ roll_number = <<>> THEN "err_fields"
    ELSE "update_open"

\* the checks with only the name looked at, not the roll number
ValidateNameOnly(code_input, name, roll_number, valid_codes) ==
    IF code_input = <<>> \/ ~isdigit(code_input) \/ Len(code_input) # 4
    THEN "err_format"
    ELSE IF IntRaises(code_input) THEN "err_value"
    ELSE IF IntOf(code_input) \notin Range(valid_codes) THEN "err_code"
    ELSE IF name = <<>> THEN "err_fields"
    ELSE "update_open"

\* lines 52-59: the outcome of the checks of the button handler
Validate(code_input, name, roll_number, valid_codes) ==
    IF code_input = <<>> \/ ~isdigit(code_input) \/ Len(code_input) # 4
    THEN "err_format"
    ELSE IF IntRaises(code_input) THEN "err_value"
    ELSE IF IntOf(code_input) \notin Range(valid_codes) THEN "err_code"
    ELSE IF name = <<>> \/ roll_number = <<>> THEN "err_fields"
    ELSE "update_open"

\* lines 82-91 and 238-264: the images c.drawImage is called on
DrawnImages ==
    {p \in AssetFiles : p # ""}

\* c.drawImage raises when the file cannot be opened
RenderRaises(present) == \E p \in DrawnImages : p \notin present

\* lines 82-98: which header the page gets
HeaderKind == IF header_img_path # "" THEN "image" ELSE "title"

\* lines 16-21 and 44: a script run begins and loads the codes
Load(r) ==
    /\ sess[r].pc \in Terminal
    /\ runs < MaxRuns
    /\ runs' = runs + 1
    /\ LET begun == [IdleSession EXCEPT
                        !.codes_before = codesFile,
                        !.log_before = logFile,
                        !.log_existed = logExists,
                        !.issued_before = Len(issued)] IN
       IF codesExists
       THEN sess' = [sess EXCEPT ![r] =
                        [begun EXCEPT !.pc = "form",
                                      !.valid_codes = load_codes(codesFile),
                                      !.loaded = load_codes(codesFile)]]
       ELSE sess' = [sess EXCEPT ![r] = [begun EXCEPT !.pc = "err_config"]]
    /\ UNCHANGED <<codesExists, codesFile, logExists, logFile, issued,
                   provisioned, view, inl>>

\* line 51: the run ends without the button having been pressed
NoClick(r) ==
    /\ sess[r].pc = "form"
    /\ sess' = [sess EXCEPT ![r].pc = "no_click"]
    /\ UNCHANGED <<codesExists, codesFile, logExists, logFile, runs, issued,
                   provisioned, view, inl>>

\* lines 51-62 with the checks made against the list valid_codes
ClickWith(r, valid_codes) ==
    /\ sess[r].pc = "form"
    /\ \E code_input \in CodeInputs, name \in Names, roll_number \in RollNumbers :
         LET outcome == Validate(code_input, name, roll_number, valid_codes)
             filled == [sess[r] EXCEPT !.pc = outcome,
                                       !.code_input = code_input,
                                       !.name = name,
                                       !.roll_number = roll_number] IN
         sess' = [sess EXCEPT ![r] =
                    IF outcome \in {"err_format", "err_value"} THEN filled
                    ELSE IF outcome = "update_open"
                    THEN [filled EXCEPT
                            !.code_val = IntOf(code_input),
                            !.valid_codes = ListRemove(valid_codes,
                                                       IntOf(code_input))]
                    ELSE [filled EXCEPT !.code_val = IntOf(code_input)]]
    /\ UNCHANGED <<codesExists, codesFile, logExists, logFile, runs, issued,
                   provisioned, view, inl>>

\* a handler that reads codes.txt again when the button is pressed
ClickRereads(r) == ClickWith(r, load_codes(codesFile))

\* lines 51-62: the button is pressed; the checks against the list loaded at
\* line 44, then valid_codes.remove
Click(r) == ClickWith(r, sess[r].valid_codes)

\* line 25: open(filename, "w") truncates codes.txt
OpenCodes(r) ==
    /\ sess[r].pc = "update_open"
    /\ codesExists' = TRUE
    /\ codesFile' = <<>>
    /\ sess' = [sess EXCEPT ![r].pc = "update_write"]
    /\ UNCHANGED <<logExists, logFile, runs, issued, provisioned, view, inl>>

\* lines 26-27: the buffered writes reach codes.txt when the file is closed
WriteCodes(r) ==
    /\ sess[r].pc = "update_write"
    /\ codesFile' = update_codes(sess[r].valid_codes)
    /\ sess' = [sess EXCEPT ![r].pc = "log"]
    /\ UNCHANGED <<codesExists, logExists, logFile, runs, issued, provisioned,
                   view, inl>>

\* lines 29-34 and 64: log_certificate_generation appends its line
LogAppend(r) ==
    /\ sess[r].pc = "log"
    /\ \E timestamp \in Timestamps :
         logFile' = logFile \o log_line(timestamp, sess[r].code_val,
                                        sess[r].name, sess[r].roll_number)
    /\ logExists' = TRUE
    /\ sess' = [sess EXCEPT ![r].pc = "render"]
    /\ UNCHANGED <<codesExists, codesFile, runs, issued, provisioned, view, inl>>

\* lines 66-290: the page is drawn, saved and offered for download; the image
\* files are whatever the disk holds at that moment
Render(r) ==
    /\ sess[r].pc = "render"
    /\ \E present \in SUBSET AssetFiles :
         IF RenderRaises(present)
         THEN /\ sess' = [sess EXCEPT ![r].pc = "err_render",
                                      ![r].present = present]
              /\ UNCHANGED issued
         ELSE /\ sess' = [sess EXCEPT ![r].pc = "done", ![r].present = present]
              /\ issued' = Append(issued,
                                  [ code |-> sess[r].code_val,
                                    name |-> sess[r].name,
                                    roll_number |-> sess[r].roll_number,
                                    header |-> HeaderKind,
                                    signatures |-> DrawnImages
                                                   \ {header_img_path} ])
    /\ UNCHANGED <<codesExists, codesFile, logExists, logFile, runs,
                   provisioned, view, inl>>

\* the process stops between two steps of an accepted request
Crash(r) ==
    /\ sess[r].pc \in InFlight
    /\ sess' = [sess EXCEPT ![r].pc = "stopped",
                             ![r].stopped_at = sess[r].pc]
    /\ UNCHANGED <<codesExists, codesFile, logExists, logFile, runs, issued,
                   provisioned, view, inl>>

-----------------------------------------------------------------------------
(* The "View Logs" page, lines 292-315 *)

IdleView ==
    [pc |-> "idle", log_lines |-> <<>>, i |-> 0, log_data |-> <<>>]

\* a parse that keeps every line of 4 fields or more
ParseLogLineAtLeast4(line) ==
    LET parts == Split(Strip(line)) IN
    IF Len(parts) >= 4
    THEN << [ Timestamp |-> parts[1], Code |-> parts[2],
              Name |-> parts[3], RollNumber |-> parts[4] ] >>
    ELSE <<>>

\* lines 303-310: the rows one line of the log adds to the table
ParseLogLine(line) ==
    LET parts == Split(Strip(line)) IN
    IF Len(parts) = 4
    THEN << [ Timestamp |-> parts[1], Code |-> parts[2],
              Name |-> parts[3], RollNumber |-> parts[4] ] >>
    ELSE <<>>

\* lines 296-300 and 312-315: the file is read, if there is one
ViewOpen ==
    /\ view.pc = "idle"
    /\ IF ~logExists
       THEN view' = [view EXCEPT !.pc = "no_file"]
       ELSE IF Readlines(logFile) = <<>>
       THEN view' = [view EXCEPT !.pc = "no_logs"]
       ELSE view' = [pc |-> "loop", log_lines |-> Readlines(logFile),
                     i |-> 1, log_data |-> <<>>]
    /\ UNCHANGED <<redeemVars, inl>>

\* lines 301-310: one iteration of the loop over the lines
ViewLine ==
    /\ view.pc = "loop"
    /\ view.i <= Len(view.log_lines)
    /\ view' = [view EXCEPT
                  !.log_data = view.log_data
                               \o ParseLogLine(view.log_lines[view.i]),
                  !.i = view.i + 1]
    /\ UNCHANGED <<redeemVars, inl>>

\* line 311: st.table(log_data)
ViewTable ==
    /\ view.pc = "loop"
    /\ view.i > Len(view.log_lines)
    /\ view' = [view EXCEPT !.pc = "table"]
    /\ UNCHANGED <<redeemVars, inl>>

-----------------------------------------------------------------------------
(* draw_inline_text, lines 101-114, with the layout settings of lines      *)
(* 69, 80, 93 and 120-124                                                  *)

page_width == 612
page_height == 792
header_height == 150
left_margin == 20
right_margin == 20
line_height == 18
text_width == page_width - left_margin - right_margin
max_x == left_margin + text_width

IdleInline ==
    [pc |-> "idle", segments |-> <<>>, k |-> 0, start_y |-> 0,
     current_x |-> 0, current_y |-> 0, drawn |-> <<>>]

\* a wrap decided at the edge of the page instead of the right margin
WrapsLineAtPageEdge(current_x, w) == current_x + w > page_width

\* line 109: the run of width w does not fit on the current line
WrapsLine(current_x, w) == current_x + w > max_x

\* lines 105-113: one run is measured, placed and drawn
InlineStep ==
    /\ inl.pc = "loop"
    /\ inl.k <= Len(inl.segments)
    /\ LET w == inl.segments[inl.k]
           wrap == WrapsLine(inl.current_x, w)
           y == IF wrap THEN inl.current_y - line_height ELSE inl.current_y
           x == IF wrap THEN left_margin ELSE inl.current_x IN
       inl' = [inl EXCEPT
                 !.current_x = x + w,
                 !.current_y = y,
                 !.k = inl.k + 1,
                 !.drawn = Append(inl.drawn,
                                  [x |-> x, y |-> y, w |-> w,
                                   cursor |-> inl.current_x, wrapped |-> wrap])]
    /\ UNCHANGED <<redeemVars, view>>

\* line 114: return current_y
InlineReturn ==
    /\ inl.pc = "loop"
    /\ inl.k > Len(inl.segments)
    /\ inl' = [inl EXCEPT !.pc = "returned"]
    /\ UNCHANGED <<redeemVars, view>>

-----------------------------------------------------------------------------
(* Specifications *)

Init ==
    /\ codesExists \in BOOLEAN
    /\ codesFile \in (IF codesExists THEN ProvisionedFiles ELSE {<<>>})
    /\ logExists = FALSE
    /\ logFile = <<>>
    /\ sess = [r \in Sessions |-> IdleSession]
    /\ runs = 0
    /\ issued = <<>>
    /\ provisioned = Range(load_codes(codesFile))
    /\ view = IdleView
    /\ inl = IdleInline

Step(r) ==
    \/ Load(r)
    \/ NoClick(r)
    \/ Click(r)
    \/ OpenCodes(r)
    \/ WriteCodes(r)
    \/ LogAppend(r)
    \/ Render(r)
    \/ Crash(r)

\* requests one after the other: a single session, run after run
Next == Step("s1")

Spec == Init /\ [][Next]_vars

\* one request per session, the two interleaved at every access to a shared file
StepOnce(r) ==
    \/ sess[r].pc = "idle" /\ Load(r)
    \/ NoClick(r)
    \/ Click(r)
    \/ OpenCodes(r)
    \/ WriteCodes(r)
    \/ LogAppend(r)
    \/ Render(r)
    \/ Crash(r)

NextConc == \E r \in Sessions : StepOnce(r)

SpecConc == Init /\ [][NextConc]_vars

\* the log page over an arbitrary log file
ViewChars == {"a", ",", " ", "\n"}

LogTexts == UNION {[1..n -> ViewChars] : n \in 0..MaxLogChars}

InitView ==
    /\ codesExists = TRUE
    /\ codesFile = <<>>
    /\ logExists \in BOOLEAN
    /\ logFile \in (IF logExists THEN LogTexts ELSE {<<>>})
    /\ sess = [r \in Sessions |-> IdleSession]
    /\ runs = 0
    /\ issued = <<>>
    /\ provisioned = {}
    /\ view = IdleView
    /\ inl = IdleInline

NextView == ViewOpen \/ ViewLine \/ ViewTable

SpecView == InitView /\ [][NextView]_vars

\* draw_inline_text over arbitrary runs of integer width; start_y is
\* text_obj.getY() after the one line of part 1 and the 1 or 2 lines of the name
InlineWidths == {100, 286, 472, 572, 573}

InlineStartYs ==
    {page_height - header_height - 60 - line_height * (1 + n) : n \in 1..2}

InitInline ==
    /\ codesExists = TRUE
    /\ codesFile = <<>>
    /\ logExists = FALSE
    /\ logFile = <<>>
    /\ sess = [r \in Sessions |-> IdleSession]
    /\ runs = 0
    /\ issued = <<>>
    /\ provisioned = {}
    /\ view = IdleView
    /\ \E segments \in UNION {[1..n -> InlineWidths] : n \in 0..MaxSegments},
          start_y \in InlineStartYs :
         inl = [pc |-> "loop", segments |-> segments, k |-> 1,
                start_y |-> start_y, current_x |-> left_margin,
                current_y |-> start_y, drawn |-> <<>>]

NextInline == InlineStep \/ InlineReturn

SpecInline == InitInline /\ [][NextInline]_vars

-----------------------------------------------------------------------------
(* Vocabulary of the properties *)

\* the code values a codes.txt holds
Values(file) == Range(load_codes(file))

\* the sequence of code values a codes.txt holds
ValueSeq(file) == load_codes(file)

\* the run of session r has been through the button handler
Clicked(r) ==
    sess[r].pc \notin {"idle", "form", "no_click", "err_config"}

\* the run of session r passed the checks
Accepted(r) ==
    sess[r].pc \in InFlight \cup {"done", "err_render", "stopped"}

\* numeric characters: the decimal digits and the other Unicode digits
NumericChars == DecimalChars \cup SuperscriptChars

\* empty, non-numeric or not exactly 4 characters long
BadFormat(input) ==
    \/ input = <<>>
    \/ Len(input) # 4
    \/ \E i \in 1..Len(input) : input[i] \notin NumericChars

\* 4 characters that make an integer
FourDigits(input) ==
    Len(input) = 4 /\ \A i \in 1..4 : input[i] \in DecimalChars

HasIdentity(r) == sess[r].name # <<>> /\ sess[r].roll_number # <<>>

\* codes.txt and the log are what they were when the run of r began
FilesAsBefore(r) ==
    /\ codesFile = sess[r].codes_before
    /\ logFile = sess[r].log_before
    /\ logExists = sess[r].log_existed

\* the list without the element at its first occurrence, by position
Without(list, x) ==
    LET first == CHOOSE i \in 1..Len(list) :
                    list[i] = x /\ \A j \in 1..(i - 1) : list[j] # x IN
    [i \in 1..(Len(list) - 1) |-> IF i < first THEN list[i] ELSE list[i + 1]]

\* the lines of the log, each without the white space around it
LogLines == [i \in 1..Len(Readlines(logFile)) |-> Strip(Readlines(logFile)[i])]

\* number of commas of a text
CommaCount(text) == Cardinality({i \in 1..Len(text) : text[i] = ","})

\* the code values that have a record in the log (the second field of a line)
LogCodes ==
    {IntOf(Split(LogLines[i])[2]) : i \in 1..Len(LogLines)}

\* number of log records of code value c
LogCount(c) ==
    Cardinality({i \in 1..Len(LogLines) : IntOf(Split(LogLines[i])[2]) = c})

\* number of documents returned for code value c
IssuedCount(c) == Cardinality({i \in 1..Len(issued) : issued[i].code = c})

\* the record of the accepted run of r, as one line of the log
RecordOf(r, timestamp) ==
    log_line(timestamp, sess[r].code_val, sess[r].name, sess[r].roll_number)

-----------------------------------------------------------------------------
(* C1: over a sequential series of requests, a 4-character numeric input   *)
(* whose value is in codes.txt, given with a name and a roll number, is    *)
(* redeemed exactly once: the first attempt that runs to its end returns   *)
(* the document, an attempt after a successful one is rejected as invalid  *)
(* or already used, and no code gets two documents.                        *)
C1_RedeemedExactlyOnce ==
    /\ \A r \in Sessions :
         (/\ Clicked(r)
          /\ sess[r].pc \in Terminal \ {"stopped"}
          /\ FourDigits(sess[r].code_input)
          /\ HasIdentity(r))
         => /\ IntOf(sess[r].code_input) \in Values(sess[r].codes_before)
                 => sess[r].pc = "done"
            /\ (\E k \in 1..sess[r].issued_before :
                    issued[k].code = IntOf(sess[r].code_input))
                 => sess[r].pc = "err_code"
    /\ \A c \in provisioned : IssuedCount(c) <= 1

(* C2: after a successful redemption codes.txt holds the prior codes       *)
(* without the redeemed one, in their order, and the log is the prior log  *)
(* followed by one record of exactly the 4 fields timestamp, code, name,   *)
(* roll number.                                                            *)
C2_OneWellFormedRecord ==
    \A r \in Sessions :
        sess[r].pc = "done" =>
            /\ ValueSeq(codesFile)
                 = Without(ValueSeq(sess[r].codes_before), sess[r].code_val)
            /\ \E timestamp \in Timestamps :
                 /\ logFile = sess[r].log_before \o RecordOf(r, timestamp)
                 /\ Split(Strip(RecordOf(r, timestamp)))
                      = << <<timestamp>>, StrOf(sess[r].code_val),
                           sess[r].name, sess[r].roll_number >>

(* C3: a request whose code input is empty, non-numeric or not 4           *)
(* characters long ends in the format error, with codes.txt and the log as *)
(* they were before it.                                                    *)
C3_BadFormatRejectedUnchanged ==
    \A r \in Sessions :
        (Clicked(r) /\ BadFormat(sess[r].code_input))
        => (sess[r].pc = "err_format" /\ FilesAsBefore(r))

C3_Witness ==
    \E r \in Sessions :
        /\ sess[r].pc = "err_format"
        /\ sess[r].code_input = <<"1", "2", "a", "4">>
        /\ sess[r].log_before # <<>>
        /\ sess[r].codes_before # <<>>

(* C4: a well-formatted request whose code is not in codes.txt ends in the *)
(* invalid-code error, one whose code is there but whose name or roll      *)
(* number is empty ends in the missing-fields error; both leave codes.txt  *)
(* and the log as they were, and in the second case the code is still in   *)
(* codes.txt and passes the checks of the next request.                    *)
C4_RejectedUnchanged ==
    \A r \in Sessions :
        (Clicked(r) /\ FourDigits(sess[r].code_input)) =>
            LET c == IntOf(sess[r].code_input) IN
            /\ c \notin Values(sess[r].codes_before)
                 => (sess[r].pc = "err_code" /\ FilesAsBefore(r))
            /\ (c \in Values(sess[r].codes_before) /\ ~HasIdentity(r))
                 => /\ sess[r].pc = "err_fields"
                    /\ FilesAsBefore(r)
                    /\ c \in Values(codesFile)
                    /\ Validate(sess[r].code_input, <<"A">>, <<"7">>,
                                load_codes(codesFile)) = "update_open"

C4_Witness ==
    \E r \in Sessions :
        /\ sess[r].pc = "err_fields"
        /\ sess[r].name = <<>>
        /\ sess[r].code_val \in Values(codesFile)
        /\ sess[r].log_before # <<>>

(* C5: a missing image file never turns a valid redemption into an error:  *)
(* every accepted request that reaches the drawing ends in done, with the  *)
(* text title when header.png is absent and with the signature slots of    *)
(* the absent files skipped.                                               *)
C5_MissingAssetsTolerated ==
    \A r \in Sessions :
        sess[r].pc \in {"done", "err_render"} =>
            /\ sess[r].pc = "done"
            /\ issued[Len(issued)].header
                 = (IF header_img_path \in sess[r].present
                    THEN "image" ELSE "title")
            /\ issued[Len(issued)].signatures
                 = sess[r].present \ {header_img_path}

(* C6: in every state of any interleaving of requests, a code with a       *)
(* returned document is not in codes.txt (a consumed code never            *)
(* reappears), and once every request has run to its end, none cut short   *)
(* by a stop or a drawing failure, codes.txt holds exactly the provisioned *)
(* codes that have no returned document.                                   *)
C6_FileIsUnconsumedCodes ==
    /\ \A k \in 1..Len(issued) : issued[k].code \notin Values(codesFile)
    /\ (\A r \in Sessions : sess[r].pc \in Terminal \ {"stopped", "err_render"})
         => Values(codesFile)
              = provisioned \ {issued[k].code : k \in 1..Len(issued)}

(* C7: the table of the log page holds exactly the lines of 4              *)
(* comma-separated fields (3 commas), in file order, each as its 4 fields; *)
(* every other line is skipped.                                            *)
C7_TableIsFourFieldLines ==
    view.pc = "table" =>
        LET lines == [i \in 1..Len(view.log_lines) |-> Strip(view.log_lines[i])]
            good == SelectSeq(lines, LAMBDA l : CommaCount(l) = 3) IN
        /\ Len(view.log_data) = Len(good)
        /\ \A k \in 1..Len(good) :
             LET row == view.log_data[k] IN
             /\ row.Timestamp \o <<",">> \o row.Code \o <<",">> \o row.Name
                  \o <<",">> \o row.RollNumber = good[k]
             /\ CommaCount(row.Timestamp) + CommaCount(row.Code)
                  + CommaCount(row.Name) + CommaCount(row.RollNumber) = 0

C7_Witness ==
    /\ view.pc = "table"
    /\ Len(view.log_data) = 1
    /\ Len(view.log_lines) = 2
    /\ view.log_data[1].Name = <<"a">>

(* C8: what decides a request is the list it loaded, not codes.txt at the  *)
(* time of the click: every request for a 4-digit code that was in the     *)
(* list it loaded, with a name and a roll number, passes the checks.  So   *)
(* two requests that both loaded the file with the code in it both         *)
(* succeed (the witness).                                                  *)
C8_AcceptedOnLoadedList ==
    \A r \in Sessions :
        (/\ Clicked(r)
         /\ FourDigits(sess[r].code_input)
         /\ IntOf(sess[r].code_input) \in Range(sess[r].loaded)
         /\ HasIdentity(r))
        => Accepted(r)

C8_Witness ==
    \E c \in provisioned :
        /\ \A r \in Sessions : sess[r].pc = "done" /\ sess[r].code_val = c
        /\ IssuedCount(c) = 2
        /\ LogCount(c) = 2

(* C9: within one accepted request codes.txt is rewritten without the      *)
(* code, then the log record is appended, then the document is returned.   *)
(* So at every point where the request may stop: a code with a log record  *)
(* is not in codes.txt, every returned document has its log record, and a  *)
(* request stopped between the rewrite and the log has spent the code and  *)
(* left no record.                                                         *)
C9_ConsumeThenLogThenRender ==
    /\ LogCodes \cap Values(codesFile) = {}
    /\ \A k \in 1..Len(issued) :
         \E i \in 1..Len(LogLines) :
             Split(LogLines[i])[2] = StrOf(issued[k].code)
             /\ LogLines[i] = Strip(log_line(Split(LogLines[i])[1][1],
                                             issued[k].code, issued[k].name,
                                             issued[k].roll_number))
    /\ \A r \in Sessions :
         /\ sess[r].pc \in {"update_open", "update_write"}
              => (logFile = sess[r].log_before
                  /\ Len(issued) = sess[r].issued_before)
         /\ sess[r].pc = "log"
              => /\ ValueSeq(codesFile)
                      = Without(ValueSeq(sess[r].codes_before), sess[r].code_val)
                 /\ logFile = sess[r].log_before
                 /\ Len(issued) = sess[r].issued_before
         /\ sess[r].pc = "render"
              => /\ sess[r].code_val \notin Values(codesFile)
                 /\ \E timestamp \in Timestamps :
                      logFile = sess[r].log_before \o RecordOf(r, timestamp)
                 /\ Len(issued) = sess[r].issued_before
         /\ sess[r].pc = "done"
              => /\ Len(issued) = sess[r].issued_before + 1
                 /\ issued[Len(issued)].code = sess[r].code_val
         /\ (sess[r].pc = "stopped" /\ sess[r].stopped_at = "log")
              => /\ sess[r].code_val \notin Values(codesFile)
                 /\ sess[r].code_val \notin LogCodes
                 /\ logFile = sess[r].log_before

C9_Witness ==
    \E r \in Sessions :
        /\ sess[r].pc = "stopped"
        /\ sess[r].stopped_at = "log"
        /\ sess[r].code_val \in Values(sess[r].codes_before)
        /\ sess[r].log_before # <<>>

(* C10, as stated: a run is drawn at the cursor only if cursor + width     *)
(* does not exceed page width - 40 = 572, else it is drawn one line (18)   *)
(* lower at the left margin; every run no wider than the printable width   *)
(* ends at or before 572; the returned y is the start y minus 18 times the *)
(* number of wraps.                                                        *)
C10_RightMarginIs572 ==
    /\ \A i \in 1..Len(inl.drawn) :
         LET d == inl.drawn[i]
             above == IF i = 1 THEN inl.start_y ELSE inl.drawn[i - 1].y IN
         /\ ~d.wrapped => (d.x = d.cursor /\ d.y = above
                           /\ d.cursor + d.w <= page_width - 40)
         /\ d.wrapped => (d.x = 20 /\ d.y = above - 18
                          /\ d.cursor + d.w > page_width - 40)
         /\ d.w <= page_width - 40 => d.x + d.w <= page_width - 40
    /\ inl.pc = "returned"
         => inl.current_y
              = inl.start_y
                - 18 * Cardinality({i \in 1..Len(inl.drawn) : inl.drawn[i].wrapped})

(* C10, amended: the right margin is page width - 20 = 592.  A run is      *)
(* drawn at the cursor only if cursor + width does not exceed 592, else it *)
(* is drawn one line (18) lower at the left margin (20); every run no      *)
(* wider than the printable width (572) ends at or before 592; the         *)
(* returned y is the start y minus 18 times the number of wraps.           *)
C10_RightMarginIs592 ==
    /\ \A i \in 1..Len(inl.drawn) :
         LET d == inl.drawn[i]
             above == IF i = 1 THEN inl.start_y ELSE inl.drawn[i - 1].y IN
         /\ ~d.wrapped => (d.x = d.cursor /\ d.y = above
                           /\ d.cursor + d.w <= page_width - 20)
         /\ d.wrapped => (d.x = 20 /\ d.y = above - 18
                          /\ d.cursor + d.w > page_width - 20)
         /\ d.w <= page_width - 40 => d.x + d.w <= page_width - 20
    /\ inl.pc = "returned"
         => inl.current_y
              = inl.start_y
                - 18 * Cardinality({i \in 1..Len(inl.drawn) : inl.drawn[i].wrapped})

C10_Witness ==
    /\ inl.pc = "returned"
    /\ \E i, j \in 1..Len(inl.drawn) :
         /\ inl.drawn[i].wrapped
         /\ ~inl.drawn[j].wrapped
         /\ inl.drawn[j].x + inl.drawn[j].w > page_width - 40

====
